---- MODULE Spec2Model ----
(***************************************************************************)
(* A model of the reversible state layer of foreverbit/biternal:           *)
(*   - the key/type scheme            (core/state/state_type.go)           *)
(*   - the state object helpers       (core/state/state_object.go)         *)
(*   - the pod object                 (core/state/pod_object.go)           *)
(*   - the journal and its entries    (core/state/journal.go)              *)
(*   - the state dump                 (core/state/dump.go)                 *)
(* One specification per component: Spec (journal driven by the state      *)
(* orchestrator), SpecRaw (Spec plus direct journal.append calls),         *)
(* SpecKeys (key scheme), SpecPod (pod object), SpecDump (dump iteration). *)
(***************************************************************************)
EXTENDS Integers, Sequences, FiniteSets, TLC

VARIABLES
  \* ---- journal (journal.go:38-41)
  entries,            \* journal.entries
  dirties,            \* journal.dirties : hash -> count
  \* ---- StateDB fields the journal entries revert
  stateObjects,       \* live cache : key hash -> object
  stateObjectsDirty,  \* shadow dirty cache : set of key hashes
  snapDestructs,      \* destruct markers of the snapshot layer
  snap,               \* whether a snapshot layer is active (s.snap != nil)
  refund, logs, logSize, preimages, accessList,
  trie,               \* backing trie : key hash -> stored value
  panicked,           \* a Go panic unwound the running operation
  \* ---- history (not program state)
  tracking,           \* whether hist is being recorded
  hist,               \* hist[k] = the context right before entries[k] was appended
  dirtyCalls,         \* hash -> number of explicit journal.dirty calls
  lastOp,             \* the operation that produced this state
  \* ---- key scheme / pod object / dump harness
  kio,                \* key scheme: the input and the results computed from it
  pod,                \* pod object harness: objects and the trie they commit to
  dump                \* dump harness: iterator position, collector, counters

jvars == <<entries, dirties, stateObjects, stateObjectsDirty, snapDestructs, snap,
           refund, logs, logSize, preimages, accessList, trie, panicked,
           tracking, hist, dirtyCalls, lastOp>>
vars == <<jvars, kio, pod, dump>>

-----------------------------------------------------------------------------
(* Bounds of the model *)
MaxJournal == 2
MaxDirtyCalls == 1
AddressLength == 2
MaxPassengers == 2
MaxTrieEntries == 3
MaxBlock == 300

(* Program constants *)
PrefixAccount == 97
PrefixPod == 112
DefaultGasLimit == 1000000

-----------------------------------------------------------------------------
(* Small maps: Go maps are functions with a finite, changing domain *)
EmptyMap == [x \in {} |-> 0]
MapPut(f, k, v) == [x \in (DOMAIN f) \cup {k} |-> IF x = k THEN v ELSE f[x]]
MapDel(f, k) == [x \in (DOMAIN f) \ {k} |-> f[x]]
MapGet(f, k, default) == IF k \in DOMAIN f THEN f[k] ELSE default

-----------------------------------------------------------------------------
(* Bytes, big integers, addresses, hashes *)

Byte == 0..255

\* big.Int.Bytes(): the minimal big-endian bytes of |n|; empty for 0
RECURSIVE BigBytes(_)
BigBytes(n) ==
  LET a == IF n < 0 THEN 0 - n ELSE n
  IN IF a = 0 THEN <<>> ELSE BigBytes(a \div 256) \o <<a % 256>>

\* big.Int.SetBytes(): the big-endian unsigned value of the bytes
RECURSIVE BigSetBytes(_)
BigSetBytes(bs) ==
  IF Len(bs) = 0 THEN 0
  ELSE BigSetBytes(SubSeq(bs, 1, Len(bs) - 1)) * 256 + bs[Len(bs)]

\* common.BytesToAddress: crop from the left when too long, left-pad with zeros
BytesToAddress(bs) ==
  LET b == IF Len(bs) > AddressLength
           THEN SubSeq(bs, Len(bs) - AddressLength + 1, Len(bs)) ELSE bs
  IN [i \in 1..(AddressLength - Len(b)) |-> 0] \o b

\* the address whose big-endian value is n
AddrOf(n) == BytesToAddress(BigBytes(n))

\* crypto.Keccak256Hash: collision-free on the keys of the model
Keccak256Hash(bs) == <<"keccak", bs>>
NoHash == <<>>
PanicHash == <<"panic">>

\* a Go slice expression b[1:]; out of range (panics) when len(b) = 0
NoBlock == 0 - 1
\* a nil *big.Int
NilBlock == 0 - 2
CanSliceFrom1(bs) == Len(bs) >= 1
SliceFrom1(bs) == SubSeq(bs, 2, Len(bs))

-----------------------------------------------------------------------------
(* Key/type scheme, state_type.go *)

AccountState == [Prefix |-> PrefixAccount]
PodState == [Prefix |-> PrefixPod]
NoStateType == [Prefix |-> 0 - 1]

\* panics ("unknown state type") on any other byte: NoStateType stands for the panic
stateTypeFromPrefix_default(prefix) ==
  IF prefix = PrefixPod THEN PodState ELSE AccountState
stateTypeFromPrefix(prefix) ==
  IF prefix = PrefixAccount THEN AccountState
  ELSE IF prefix = PrefixPod THEN PodState
  ELSE NoStateType

PreKey(st, key) == <<st.Prefix>> \o key
Value(st, value) == <<st.Prefix>> \o value

accountKey(addr) == PreKey(AccountState, addr)

keyToAddress(key) == BytesToAddress(SliceFrom1(key))

podKey(block) == PreKey(PodState, BigBytes(block))

keyToBlock_keep(key) == BigSetBytes(key)
\* key[1:] panics on an empty key: NoBlock stands for the panic
keyToBlock(key) == IF CanSliceFrom1(key) THEN BigSetBytes(SliceFrom1(key)) ELSE NoBlock

(* state_object.go *)
accountKeyHash(addr) == Keccak256Hash(accountKey(addr))
podKeyHash(block) == Keccak256Hash(podKey(block))

-----------------------------------------------------------------------------
(* State objects.  An object reference that is nil is None. *)

None == [type |-> "none"]

\* the storage slots of the model; storage[k] is what GetState(k) returns
Slots == {1}
CodeHashOf(code) == <<"codehash", code>>

\* types.StateAccount as stored in the trie, and the account object built from it
EmptyStateAccount == [Balance |-> 0, Nonce |-> 0, Code |-> 0]
newAccountObject(addr, data) ==
  [type |-> "account", address |-> addr, balance |-> data.Balance,
   nonce |-> data.Nonce, codeHash |-> CodeHashOf(data.Code), code |-> data.Code,
   storage |-> [k \in Slots |-> 0], suicided |-> FALSE, deleted |-> FALSE]

\* pod_object.go: newPodObject
\* podKeyHash(block) calls block.Bytes(): a nil block panics there
PanicObject == [type |-> "panic"]
newPodObject_keepZero(block, data) ==
  IF block = NilBlock THEN PanicObject
  ELSE [type |-> "pod", block |-> block, podHash |-> podKeyHash(block),
        data |-> data, executed |-> FALSE, deleted |-> FALSE]
newPodObject(block, data) ==
  IF block = NilBlock THEN PanicObject
  ELSE [type |-> "pod", block |-> block, podHash |-> podKeyHash(block),
        data |-> IF data.GasLimit = 0 THEN [data EXCEPT !.GasLimit = DefaultGasLimit]
                 ELSE data,
        executed |-> FALSE, deleted |-> FALSE]

EmptyStatePod == [GasLimit |-> 0, CurrentGasLimit |-> 0, Passengers |-> <<>>]

\* stateObject.Type(), Key(), KeyHash(), Suicided(), Deleted()
ObjType(o) == IF o.type = "account" THEN AccountState ELSE PodState
ObjKey(o) == IF o.type = "account" THEN accountKey(o.address) ELSE podKey(o.block)
ObjKeyHash(o) == IF o.type = "account" THEN accountKeyHash(o.address) ELSE o.podHash
ObjSuicided(o) == IF o.type = "account" THEN o.suicided ELSE o.executed
ObjDeleted(o) == o.deleted

-----------------------------------------------------------------------------
(* The StateDB surface the journal entries call.  A context s is a record    *)
(* of the journal's and the StateDB's fields.                                *)

Panic(s) == [s EXCEPT !.panicked = TRUE]

hashKey(key) == Keccak256Hash(key)

\* install an object in the live cache under its own key hash; a nil object
\* has no key hash: the method call on the nil interface panics
setStateObject(s, obj) ==
  IF obj = None THEN Panic(s)
  ELSE [s EXCEPT !.stateObjects = MapPut(@, ObjKeyHash(obj), obj)]

\* decode a stored value: the one-byte type tag picks the variant
decodeObject(key, stored) ==
  IF stateTypeFromPrefix(stored.prefix) = AccountState
  THEN newAccountObject(keyToAddress(key), stored.data)
  ELSE newPodObject(keyToBlock(key), stored.data)

\* cache first, then the trie; an object read from the trie is cached
getDeletedStateObject(s, key) ==
  LET h == hashKey(key)
  IN IF h \in DOMAIN s.stateObjects THEN [obj |-> s.stateObjects[h], s |-> s]
     ELSE IF h \in DOMAIN s.trie
     THEN LET o == decodeObject(key, s.trie[h])
          IN [obj |-> o, s |-> setStateObject(s, o)]
     ELSE [obj |-> None, s |-> s]

getStateObject(s, key) ==
  LET r == getDeletedStateObject(s, key)
  IN IF r.obj # None /\ ~ObjDeleted(r.obj) THEN r ELSE [obj |-> None, s |-> r.s]

\* a field write through the pointer the cache holds
setField(s, h, field, v) ==
  [s EXCEPT !.stateObjects = [@ EXCEPT ![h] = [@ EXCEPT ![field] = v]]]

-----------------------------------------------------------------------------
(* Journal entries, journal.go:87-146, and their revert methods *)

createObjectChange(key) == [kind |-> "createObject", key |-> key]
resetObjectChange(prev, prevdestruct) ==
  [kind |-> "resetObject", prev |-> prev, prevdestruct |-> prevdestruct]
suicideChange(account, prev, prevbalance) ==
  [kind |-> "suicide", account |-> account, prev |-> prev, prevbalance |-> prevbalance]
balanceChange(account, prev) == [kind |-> "balance", account |-> account, prev |-> prev]
nonceChange(account, prev) == [kind |-> "nonce", account |-> account, prev |-> prev]
storageChange(account, key, prevalue) ==
  [kind |-> "storage", account |-> account, key |-> key, prevalue |-> prevalue]
codeChange(account, prevcode, prevhash) ==
  [kind |-> "code", account |-> account, prevcode |-> prevcode, prevhash |-> prevhash]
refundChange(prev) == [kind |-> "refund", prev |-> prev]
addLogChange(txhash) == [kind |-> "addLog", txhash |-> txhash]
addPreimageChange(hash) == [kind |-> "addPreimage", hash |-> hash]
touchChange(account) == [kind |-> "touch", account |-> account]
accessListAddAccountChange(address) == [kind |-> "alAccount", address |-> address]
accessListAddSlotChange(address, slot) ==
  [kind |-> "alSlot", address |-> address, slot |-> slot]

createObjectChange_revert_keepObject(s, ch) ==
  [s EXCEPT !.stateObjectsDirty = @ \ {hashKey(ch.key)}]
createObjectChange_revert(s, ch) ==
  LET keyHash == hashKey(ch.key)
  IN [s EXCEPT !.stateObjects = MapDel(@, keyHash),
               !.stateObjectsDirty = @ \ {keyHash}]

\* ch.prev.KeyHash() on a nil prev panics, as setStateObject(nil) does
resetObjectChange_revert(s, ch) ==
  LET s1 == setStateObject(s, ch.prev)
  IN IF s1.panicked THEN s1
     ELSE IF ~ch.prevdestruct /\ s1.snap
     THEN [s1 EXCEPT !.snapDestructs = @ \ {ObjKeyHash(ch.prev)}]
     ELSE s1

\* getAccountObject(so): so.Type() on a nil interface panics; an object of the
\* other variant gives a nil *accountObject, whose field writes panic
AccountFieldRevert(s, account, fields) ==
  LET r == getStateObject(s, accountKey(account))
      h == accountKeyHash(account)
  IN IF r.obj = None \/ r.obj.type # "account" THEN Panic(r.s)
     ELSE [r.s EXCEPT !.stateObjects =
             [@ EXCEPT ![h] = [f \in DOMAIN @ |->
                                 IF f \in DOMAIN fields THEN fields[f] ELSE @[f]]]]

suicideChange_revert_flagOnly(s, ch) ==
  LET r == getStateObject(s, accountKey(ch.account))
  IN IF r.obj # None
     THEN AccountFieldRevert(s, ch.account, [suicided |-> ch.prev])
     ELSE r.s
suicideChange_revert(s, ch) ==
  LET r == getStateObject(s, accountKey(ch.account))
  IN IF r.obj # None
     THEN AccountFieldRevert(s, ch.account,
                             [suicided |-> ch.prev, balance |-> ch.prevbalance])
     ELSE r.s

touchChange_revert(s, ch) == s

balanceChange_revert_skip(s, ch) == s
balanceChange_revert(s, ch) ==
  AccountFieldRevert(s, ch.account, [balance |-> ch.prev])

nonceChange_revert(s, ch) ==
  AccountFieldRevert(s, ch.account, [nonce |-> ch.prev])

codeChange_revert(s, ch) ==
  AccountFieldRevert(s, ch.account, [codeHash |-> ch.prevhash, code |-> ch.prevcode])

storageChange_revert(s, ch) ==
  LET r == getStateObject(s, accountKey(ch.account))
  IN IF r.obj = None \/ r.obj.type # "account" THEN Panic(r.s)
     ELSE AccountFieldRevert(s, ch.account,
                             [storage |-> [r.obj.storage EXCEPT ![ch.key] = ch.prevalue]])

refundChange_revert(s, ch) == [s EXCEPT !.refund = ch.prev]

\* logs[:len(logs)-1] panics when the hash has no logs
addLogChange_revert_keepSize(s, ch) ==
  LET l == MapGet(s.logs, ch.txhash, <<>>)
  IN IF Len(l) = 1 THEN [s EXCEPT !.logs = MapDel(@, ch.txhash)]
     ELSE IF Len(l) = 0 THEN Panic(s)
     ELSE [s EXCEPT !.logs = MapPut(@, ch.txhash, SubSeq(l, 1, Len(l) - 1))]
addLogChange_revert(s, ch) ==
  LET l == MapGet(s.logs, ch.txhash, <<>>)
  IN IF Len(l) = 1
     THEN [s EXCEPT !.logs = MapDel(@, ch.txhash), !.logSize = @ - 1]
     ELSE IF Len(l) = 0 THEN Panic(s)
     ELSE [s EXCEPT !.logs = MapPut(@, ch.txhash, SubSeq(l, 1, Len(l) - 1)),
                    !.logSize = @ - 1]

addPreimageChange_revert(s, ch) == [s EXCEPT !.preimages = MapDel(@, ch.hash)]

\* accessList.DeleteAddress / DeleteSlot
accessListAddAccountChange_revert_keep(s, ch) == s
accessListAddAccountChange_revert(s, ch) ==
  [s EXCEPT !.accessList = MapDel(@, ch.address)]

accessListAddSlotChange_revert(s, ch) ==
  IF ch.address \in DOMAIN s.accessList
  THEN [s EXCEPT !.accessList = [@ EXCEPT ![ch.address] = @ \ {ch.slot}]]
  ELSE s

\* entries[i].revert(statedb): the dispatch on the entry's dynamic type
EntryRevert(s, ch) ==
  CASE ch.kind = "createObject" -> createObjectChange_revert(s, ch)
    [] ch.kind = "resetObject" -> resetObjectChange_revert(s, ch)
    [] ch.kind = "suicide" -> suicideChange_revert(s, ch)
    [] ch.kind = "touch" -> touchChange_revert(s, ch)
    [] ch.kind = "balance" -> balanceChange_revert(s, ch)
    [] ch.kind = "nonce" -> nonceChange_revert(s, ch)
    [] ch.kind = "code" -> codeChange_revert(s, ch)
    [] ch.kind = "storage" -> storageChange_revert(s, ch)
    [] ch.kind = "refund" -> refundChange_revert(s, ch)
    [] ch.kind = "addLog" -> addLogChange_revert(s, ch)
    [] ch.kind = "addPreimage" -> addPreimageChange_revert(s, ch)
    [] ch.kind = "alAccount" -> accessListAddAccountChange_revert(s, ch)
    [] ch.kind = "alSlot" -> accessListAddSlotChange_revert(s, ch)

(* dirtied(): NoHash is the nil result, PanicHash a panic inside the call *)

\* journal.go:155-169.  The pod branch hands keyToBlock the key WITHOUT its
\* prefix, and keyToBlock drops one more byte.
createObjectChange_dirtied(ch) ==
  LET stateType == stateTypeFromPrefix(ch.key[1])
  IN IF stateType = AccountState
     THEN accountKeyHash(BytesToAddress(SliceFrom1(ch.key)))
     ELSE IF stateType = PodState
     THEN LET block == keyToBlock(SliceFrom1(ch.key))
          IN IF block = NoBlock THEN PanicHash ELSE podKeyHash(block)
     ELSE PanicHash

Dirtied(ch) ==
  CASE ch.kind = "createObject" -> createObjectChange_dirtied(ch)
    [] ch.kind \in {"suicide", "touch", "balance", "nonce", "code", "storage"}
         -> accountKeyHash(ch.account)
    [] OTHER -> NoHash

-----------------------------------------------------------------------------
(* The journal, journal.go:38-85 *)

newJournal == [entries |-> <<>>, dirties |-> EmptyMap]

journal_append_noCount(s, entry) == [s EXCEPT !.entries = Append(@, entry)]
journal_append(s, entry) ==
  LET s1 == [s EXCEPT !.entries = Append(@, entry)]
      keyHash == Dirtied(entry)
  IN IF keyHash = PanicHash THEN Panic(s1)
     ELSE IF keyHash # NoHash
     THEN [s1 EXCEPT !.dirties = MapPut(@, keyHash, MapGet(@, keyHash, 0) + 1)]
     ELSE s1

\* j.dirties[*keyHash]--, and the slot deleted when it reaches zero
dirtyDrop_keepZero(s, keyHash) ==
  [s EXCEPT !.dirties = MapPut(@, keyHash, MapGet(@, keyHash, 0) - 1)]
dirtyDrop(s, keyHash) ==
  LET n == MapGet(s.dirties, keyHash, 0) - 1
  IN IF n = 0 THEN [s EXCEPT !.dirties = MapDel(@, keyHash)]
     ELSE [s EXCEPT !.dirties = MapPut(@, keyHash, n)]

\* the loop, from Go index i down to index stop (entries[i] is s.entries[i + 1]);
\* calls lists, in order, the calls the loop has made on the entries
RECURSIVE revertLoop_ascending(_, _, _, _)
revertLoop_ascending(s, i, stop, calls) ==
  IF i < stop THEN [ctx |-> s, calls |-> calls]
  ELSE LET ch == s.entries[stop + 1]
           s1 == EntryRevert(s, ch)
           c1 == Append(calls, [call |-> "revert", index |-> stop])
       IN IF s1.panicked THEN [ctx |-> s1, calls |-> c1]
          ELSE LET keyHash == Dirtied(ch)
                   c2 == Append(c1, [call |-> "decrement", index |-> stop])
               IN IF keyHash = PanicHash THEN [ctx |-> Panic(s1), calls |-> c1]
                  ELSE IF keyHash # NoHash
                  THEN revertLoop_ascending(dirtyDrop(s1, keyHash), i, stop + 1, c2)
                  ELSE revertLoop_ascending(s1, i, stop + 1, c1)

RECURSIVE revertLoop(_, _, _, _)
revertLoop(s, i, stop, calls) ==
  IF i < stop THEN [ctx |-> s, calls |-> calls]
  ELSE LET ch == s.entries[i + 1]
           s1 == EntryRevert(s, ch)
           c1 == Append(calls, [call |-> "revert", index |-> i])
       IN IF s1.panicked THEN [ctx |-> s1, calls |-> c1]
          ELSE LET keyHash == Dirtied(ch)
                   c2 == Append(c1, [call |-> "decrement", index |-> i])
               IN IF keyHash = PanicHash THEN [ctx |-> Panic(s1), calls |-> c1]
                  ELSE IF keyHash # NoHash
                  THEN revertLoop(dirtyDrop(s1, keyHash), i - 1, stop, c2)
                  ELSE revertLoop(s1, i - 1, stop, c1)

\* j.entries = j.entries[:snapshot], not reached when the loop panicked
truncate(s, snapshot) ==
  IF s.panicked THEN s ELSE [s EXCEPT !.entries = SubSeq(@, 1, snapshot)]

journal_revert_offByOne(s, snapshot) ==
  truncate(revertLoop(s, Len(s.entries) - 1, snapshot + 1, <<>>).ctx, snapshot)
journal_revert(s, snapshot) ==
  truncate(revertLoop(s, Len(s.entries) - 1, snapshot, <<>>).ctx, snapshot)

journal_dirty(s, keyHash) ==
  [s EXCEPT !.dirties = MapPut(@, keyHash, MapGet(@, keyHash, 0) + 1)]

journal_length(s) == Len(s.entries)

-----------------------------------------------------------------------------
(* The context the variables hold, and the inputs the operations draw from *)

Ctx == [entries |-> entries, dirties |-> dirties, stateObjects |-> stateObjects,
        stateObjectsDirty |-> stateObjectsDirty, snapDestructs |-> snapDestructs,
        snap |-> snap, refund |-> refund, logs |-> logs, logSize |-> logSize,
        preimages |-> preimages, accessList |-> accessList, trie |-> trie,
        panicked |-> panicked]

\* a checkpoint: the context when it is taken; fieldsOnly holds while every
\* operation since has been a balance, nonce, code or storage change
FieldKinds == {"balance", "nonce", "code", "storage"}
Here == [ctx |-> Ctx, dirtyCalls |-> dirtyCalls, fieldsOnly |-> TRUE]
Taint(h) == [k \in DOMAIN h |-> [h[k] EXCEPT !.fieldsOnly = FALSE]]

SetCtx(s) ==
  /\ entries' = s.entries
  /\ dirties' = s.dirties
  /\ stateObjects' = s.stateObjects
  /\ stateObjectsDirty' = s.stateObjectsDirty
  /\ snapDestructs' = s.snapDestructs
  /\ snap' = s.snap
  /\ refund' = s.refund
  /\ logs' = s.logs
  /\ logSize' = s.logSize
  /\ preimages' = s.preimages
  /\ accessList' = s.accessList
  /\ trie' = s.trie
  /\ panicked' = s.panicked

\* journal.go:196: the RIPEMD precompile, 0x00..03
ripemd == AddrOf(3)
Addrs == {AddrOf(1), ripemd}
Blocks == {0, 1, 258}
Balances == {1, 2}
Nonces == {1}
Codes == {1}
SlotValues == {1}
TxHashes == {1}
Gas == {1}
PreimageHashes == {1}
AccountHashes == {accountKeyHash(a) : a \in Addrs}

\* the stored form of an account (prefix byte, then the encoded data)
StoredAccount(data) == [prefix |-> PrefixAccount, data |-> data]

\* the trie under the context: the first address has a stored account, the
\* second has none
InitialTrie ==
  MapPut(EmptyMap, accountKeyHash(AddrOf(1)),
         StoredAccount([Balance |-> 1, Nonce |-> 0, Code |-> 0]))

Idle == [op |-> "init", c |-> 0]

JournalInit(track) ==
  /\ entries = newJournal.entries
  /\ dirties = newJournal.dirties
  /\ stateObjects = EmptyMap
  /\ stateObjectsDirty = {}
  /\ snapDestructs = {}
  /\ snap \in BOOLEAN
  /\ refund = 0
  /\ logs = EmptyMap
  /\ logSize = 0
  /\ preimages = EmptyMap
  /\ accessList = EmptyMap
  /\ trie = InitialTrie
  /\ panicked = FALSE
  /\ tracking = track
  /\ hist = <<>>
  /\ dirtyCalls = EmptyMap
  /\ lastOp = Idle

\* the journal is not in use (the other components' specifications)
JournalIdle ==
  /\ entries = newJournal.entries
  /\ dirties = newJournal.dirties
  /\ stateObjects = EmptyMap
  /\ stateObjectsDirty = {}
  /\ snapDestructs = {}
  /\ snap = FALSE
  /\ refund = 0
  /\ logs = EmptyMap
  /\ logSize = 0
  /\ preimages = EmptyMap
  /\ accessList = EmptyMap
  /\ trie = EmptyMap
  /\ panicked = FALSE
  /\ tracking = FALSE
  /\ hist = <<>>
  /\ dirtyCalls = EmptyMap
  /\ lastOp = Idle

-----------------------------------------------------------------------------
(* The orchestrator's journaled operations: journal first, then mutate *)

\* create-or-replace: an object-created entry when nothing was there, an
\* object-reset entry holding the previous object otherwise
createObject(s, key, newobj) ==
  LET r == getDeletedStateObject(s, key)
      prev == r.obj
      marked == prev # None /\ r.s.snap /\ ObjKeyHash(prev) \in r.s.snapDestructs
      s1 == IF prev # None /\ r.s.snap
            THEN [r.s EXCEPT !.snapDestructs = @ \cup {ObjKeyHash(prev)}] ELSE r.s
      s2 == journal_append(s1, IF prev = None THEN createObjectChange(key)
                               ELSE resetObjectChange(prev, marked))
  IN IF s2.panicked THEN s2 ELSE setStateObject(s2, newobj)

\* a journaled write of account fields: the entry holds the pre-image
accountWrite(s, addr, entry, fields) ==
  LET r == getStateObject(s, accountKey(addr))
      s1 == journal_append(r.s, entry)
      f == fields
  IN IF s1.panicked THEN s1
     ELSE [s1 EXCEPT !.stateObjects =
             [@ EXCEPT ![accountKeyHash(addr)] =
                [x \in DOMAIN @ |-> IF x \in DOMAIN f THEN f[x] ELSE @[x]]]]

HasAccount(addr) == getStateObject(Ctx, accountKey(addr)).obj # None

CanAppend == ~panicked /\ Len(entries) < MaxJournal

\* the bookkeeping every journaled operation shares
Step(name, s2) ==
  /\ SetCtx(s2)
  /\ hist' = IF tracking
             THEN (IF name \in FieldKinds THEN hist ELSE Taint(hist))
                    \o [k \in 1..(Len(s2.entries) - Len(entries)) |-> Here]
             ELSE hist
  /\ lastOp' = [op |-> name, c |-> Len(entries)]
  /\ UNCHANGED <<tracking, dirtyCalls, kio, pod, dump>>

CreateAccount(addr) ==
  /\ CanAppend
  /\ Step("createObject",
          createObject(Ctx, accountKey(addr), newAccountObject(addr, EmptyStateAccount)))

CreatePod(block) ==
  /\ CanAppend
  /\ Step("createObject",
          createObject(Ctx, podKey(block), newPodObject(block, EmptyStatePod)))

SetBalance(addr, amount) ==
  /\ CanAppend /\ HasAccount(addr)
  /\ LET o == getStateObject(Ctx, accountKey(addr)).obj
         e == balanceChange(addr, o.balance)
         f == [balance |-> amount]
     IN Step("balance", accountWrite(Ctx, addr, e, f))

SetNonce(addr, nonce) ==
  /\ CanAppend /\ HasAccount(addr)
  /\ LET o == getStateObject(Ctx, accountKey(addr)).obj
         e == nonceChange(addr, o.nonce)
         f == [nonce |-> nonce]
     IN Step("nonce", accountWrite(Ctx, addr, e, f))

SetCode(addr, code) ==
  /\ CanAppend /\ HasAccount(addr)
  /\ LET o == getStateObject(Ctx, accountKey(addr)).obj
         e == codeChange(addr, o.code, o.codeHash)
         f == [code |-> code, codeHash |-> CodeHashOf(code)]
     IN Step("code", accountWrite(Ctx, addr, e, f))

SetState(addr, key, value) ==
  /\ CanAppend /\ HasAccount(addr)
  /\ LET o == getStateObject(Ctx, accountKey(addr)).obj
         e == storageChange(addr, key, o.storage[key])
         f == [storage |-> [o.storage EXCEPT ![key] = value]]
     IN Step("storage", accountWrite(Ctx, addr, e, f))

Suicide(addr) ==
  /\ CanAppend /\ HasAccount(addr)
  /\ LET o == getStateObject(Ctx, accountKey(addr)).obj
         e == suicideChange(addr, o.suicided, o.balance)
         f == [suicided |-> TRUE, balance |-> 0]
     IN Step("suicide", accountWrite(Ctx, addr, e, f))

\* touch: the entry, and for the RIPEMD precompile the explicit dirty mark
Touch(addr) ==
  /\ CanAppend /\ HasAccount(addr)
  /\ addr = ripemd => MapGet(dirtyCalls, accountKeyHash(addr), 0) < MaxDirtyCalls
  /\ LET o == getStateObject(Ctx, accountKey(addr)).obj
         e == touchChange(addr)
         f == EmptyMap
         s1 == accountWrite(Ctx, addr, e, f)
         s2 == IF addr = ripemd /\ ~s1.panicked
               THEN journal_dirty(s1, accountKeyHash(addr)) ELSE s1
     IN /\ SetCtx(s2)
        /\ hist' = IF tracking THEN Append(Taint(hist), Here) ELSE hist
        /\ lastOp' = [op |-> "touch", c |-> Len(entries)]
        /\ dirtyCalls' = IF addr = ripemd /\ ~s1.panicked
                         THEN MapPut(dirtyCalls, accountKeyHash(addr),
                                     MapGet(dirtyCalls, accountKeyHash(addr), 0) + 1)
                         ELSE dirtyCalls
        /\ UNCHANGED <<tracking, kio, pod, dump>>

AddRefund(gas) ==
  /\ CanAppend
  /\ Step("refund", [journal_append(Ctx, refundChange(refund)) EXCEPT !.refund = @ + gas])

AddLog(txhash) ==
  /\ CanAppend
  /\ Step("addLog",
          [journal_append(Ctx, addLogChange(txhash)) EXCEPT
             !.logs = MapPut(@, txhash,
                             Append(MapGet(@, txhash, <<>>), [Index |-> logSize])),
             !.logSize = @ + 1])

AddPreimage(hash) ==
  /\ CanAppend /\ hash \notin DOMAIN preimages
  /\ Step("addPreimage",
          [journal_append(Ctx, addPreimageChange(hash)) EXCEPT
             !.preimages = MapPut(@, hash, <<hash>>)])

AddAddressToAccessList(addr) ==
  /\ CanAppend /\ addr \notin DOMAIN accessList
  /\ Step("alAccount",
          [journal_append(Ctx, accessListAddAccountChange(addr)) EXCEPT
             !.accessList = MapPut(@, addr, {})])

\* one entry for the address when it is new, then one for the slot
AddSlotToAccessList(addr, slot) ==
  /\ ~panicked
  /\ slot \notin MapGet(accessList, addr, {})
  /\ LET addrMod == addr \notin DOMAIN accessList
         s1 == IF addrMod
               THEN [journal_append(Ctx, accessListAddAccountChange(addr)) EXCEPT
                       !.accessList = MapPut(@, addr, {})]
               ELSE Ctx
         s2 == [journal_append(s1, accessListAddSlotChange(addr, slot)) EXCEPT
                  !.accessList = MapPut(@, addr, MapGet(@, addr, {}) \cup {slot})]
     IN /\ Len(s2.entries) <= MaxJournal
        /\ SetCtx(s2)
        /\ hist' = IF ~tracking THEN hist
                   ELSE IF addrMod
                   THEN Taint(hist) \o <<Here, [Here EXCEPT !.ctx = s1]>>
                   ELSE Append(Taint(hist), Here)
        /\ lastOp' = [op |-> "alSlot", c |-> Len(entries)]
        /\ UNCHANGED <<tracking, dirtyCalls, kio, pod, dump>>

\* RevertToSnapshot: journal.revert to a checkpoint 0..length
RevertToSnapshot(snapshot) ==
  /\ ~panicked
  /\ Len(entries) > 0
  /\ SetCtx(journal_revert(Ctx, snapshot))
  /\ hist' = IF tracking THEN Taint(SubSeq(hist, 1, snapshot)) ELSE hist
  /\ lastOp' = [op |-> "revert", c |-> snapshot, before |-> entries,
                 calls |-> revertLoop(Ctx, Len(entries) - 1, snapshot, <<>>).calls]
  /\ UNCHANGED <<tracking, dirtyCalls, kio, pod, dump>>

JournalNext ==
  \/ \E a \in Addrs : CreateAccount(a)
  \/ \E b \in Blocks : CreatePod(b)
  \/ \E a \in Addrs, v \in Balances : SetBalance(a, v)
  \/ \E a \in Addrs, n \in Nonces : SetNonce(a, n)
  \/ \E a \in Addrs, c \in Codes : SetCode(a, c)
  \/ \E a \in Addrs, k \in Slots, v \in SlotValues : SetState(a, k, v)
  \/ \E a \in Addrs : Suicide(a)
  \/ \E a \in Addrs : Touch(a)
  \/ \E g \in Gas : AddRefund(g)
  \/ \E t \in TxHashes : AddLog(t)
  \/ \E h \in PreimageHashes : AddPreimage(h)
  \/ \E a \in Addrs : AddAddressToAccessList(a)
  \/ \E a \in Addrs, k \in Slots : AddSlotToAccessList(a, k)
  \/ \E c \in 0..Len(entries) : RevertToSnapshot(c)

OthersIdle == kio = <<>> /\ pod = <<>> /\ dump = <<>>

Init == JournalInit(FALSE) /\ OthersIdle
Next == JournalNext
Spec == Init /\ [][Next]_vars

-----------------------------------------------------------------------------
(* What the claims about the journal speak of *)

AccountKeys == {accountKey(a) : a \in Addrs}
PodKeys == {podKey(b) : b \in Blocks}
Keys == AccountKeys \cup PodKeys

\* the context as constructed, over the same trie and snapshot layer
FreshCtx ==
  [entries |-> <<>>, dirties |-> EmptyMap, stateObjects |-> EmptyMap,
   stateObjectsDirty |-> {}, snapDestructs |-> {}, snap |-> snap, refund |-> 0,
   logs |-> EmptyMap, logSize |-> 0, preimages |-> EmptyMap,
   accessList |-> EmptyMap, trie |-> trie, panicked |-> FALSE]

\* what a lookup of the key returns in context s
Lookup(s, key) == getDeletedStateObject(s, key).obj

\* every key looks up as in the fresh context, and nothing is marked dirty
CacheLikeFresh(s) ==
  /\ s.stateObjectsDirty = {}
  /\ \A key \in Keys : Lookup(s, key) = Lookup(FreshCtx, key)
  /\ \A h \in DOMAIN s.stateObjects : \E key \in Keys : h = hashKey(key)

\* the hashes entries of es dirty, and how many entries dirty H
RealHash(h) == h # NoHash /\ h # PanicHash
DirtiedBy(es) == {h \in {Dirtied(es[i]) : i \in 1..Len(es)} : RealHash(h)}
CountDirtied(es, H) == Cardinality({i \in 1..Len(es) : Dirtied(es[i]) = H})
HashUniverse == DOMAIN dirties \cup DirtiedBy(entries) \cup AccountHashes
                  \cup DOMAIN dirtyCalls

\* C1 (as claimed): after revert(0) the journal and the dirties map are empty and
\* every key looks up as in the fresh context.
C1_RevertZeroEmpties ==
  (lastOp.op = "revert" /\ lastOp.c = 0) =>
     /\ ~panicked
     /\ entries = <<>>
     /\ dirties = EmptyMap
     /\ CacheLikeFresh(Ctx)

\* C1 (amended): after revert(0) the journal is empty, every key looks up as in
\* the fresh context, and the dirties map holds exactly the explicit journal.dirty
\* marks made so far: it is empty only when journal.dirty was never called.
C1_RevertZeroKeepsExplicitDirty ==
  (lastOp.op = "revert" /\ lastOp.c = 0) =>
     /\ ~panicked
     /\ entries = <<>>
     /\ dirties = dirtyCalls
     /\ CacheLikeFresh(Ctx)

\* C1 witness: revert(0) ran after an explicit dirty mark and after an object was
\* journaled into the cache.
C1_Witness ==
  /\ lastOp.op = "revert" /\ lastOp.c = 0
  /\ entries = <<>>
  /\ dirtyCalls # EmptyMap
  /\ accountKeyHash(ripemd) \notin DOMAIN stateObjects

\* C2 (as claimed): dirties[H] is the number of entries that dirty H, with no slot
\* when that number is zero.
C2_DirtiesCountEntries ==
  \A H \in HashUniverse :
     /\ MapGet(dirties, H, 0) = CountDirtied(entries, H)
     /\ CountDirtied(entries, H) = 0 => H \notin DOMAIN dirties

\* C2 (amended): dirties[H] is the number of entries that dirty H plus the number of
\* explicit journal.dirty(H) calls, with no slot exactly when that sum is zero.
C2_DirtiesCountEntriesAndMarks ==
  \A H \in HashUniverse :
     LET n == CountDirtied(entries, H) + MapGet(dirtyCalls, H, 0)
     IN /\ n = 0 => H \notin DOMAIN dirties
        /\ n > 0 => H \in DOMAIN dirties /\ dirties[H] = n

\* C2 witness: a hash with an entry, an explicit mark, and one entry reverted.
C2_Witness ==
  /\ lastOp.op = "revert"
  /\ \E H \in DOMAIN dirtyCalls :
        /\ CountDirtied(entries, H) = 1
        /\ dirties[H] = 1 + dirtyCalls[H]

\* C3: revert(s2) followed by revert(s1), s1 <= s2 <= length, gives the same
\* journal, dirties map and StateDB state as revert(s1) alone.
C3_NestedRevertsCompose ==
  ~panicked =>
    \A s2 \in 0..Len(entries) : \A s1 \in 0..s2 :
       journal_revert(journal_revert(Ctx, s2), s1) = journal_revert(Ctx, s1)

\* C3 witness: a journal of two or more entries where each of the two reverts
\* changes the object cache.
C3_Witness ==
  /\ ~panicked /\ Len(entries) >= 2
  /\ \E s2 \in 1..(Len(entries) - 1) : \E s1 \in 0..(s2 - 1) :
        /\ journal_revert(Ctx, s2).stateObjects # stateObjects
        /\ journal_revert(Ctx, s1).stateObjects # journal_revert(Ctx, s2).stateObjects
        /\ journal_revert(journal_revert(Ctx, s2), s1).entries = SubSeq(entries, 1, s1)

\* the dirties map m with H counted d more times (d may be negative)
Bump(m, H, d) ==
  IF MapGet(m, H, 0) + d = 0 THEN MapDel(m, H) ELSE MapPut(m, H, MapGet(m, H, 0) + d)

\* C5: a step that appends one entry dirtying H raises dirties[H] by one (plus the
\* explicit mark when the step makes one) and changes no other count, so with no
\* explicit mark dirties[H] is the number of entries dirtying H; an entry that
\* dirties nothing changes no count; reverting the last entry alone lowers the
\* count of its hash by one and changes no other.
C5_Step ==
  /\ (~panicked' /\ Len(entries') = Len(entries) + 1) =>
        LET H == Dirtied(entries'[Len(entries')])
        IN /\ H = NoHash => dirties' = dirties
           /\ H # NoHash =>
                /\ dirties' = Bump(dirties, H, 1 + MapGet(dirtyCalls', H, 0)
                                                 - MapGet(dirtyCalls, H, 0))
                /\ MapGet(dirtyCalls', H, 0) = 0 =>
                      dirties'[H] = CountDirtied(entries', H)
  /\ (~panicked' /\ lastOp'.op = "revert" /\ Len(entries') = Len(entries) - 1) =>
        LET H == Dirtied(entries[Len(entries)])
        IN /\ H = NoHash => dirties' = dirties
           /\ H # NoHash => dirties' = Bump(dirties, H, 0 - 1)
-----------------------------------------------------------------------------
(* Checkpoints: the same operations on accounts, with the context at every   *)
(* journal length recorded in hist                                           *)

CheckpointNext ==
  \/ \E a \in Addrs : CreateAccount(a)
  \/ \E a \in Addrs, v \in Balances : SetBalance(a, v)
  \/ \E a \in Addrs, n \in Nonces : SetNonce(a, n)
  \/ \E a \in Addrs, c \in Codes : SetCode(a, c)
  \/ \E a \in Addrs, k \in Slots, v \in SlotValues : SetState(a, k, v)
  \/ \E a \in Addrs : Touch(a)
  \/ \E c \in 0..Len(entries) : RevertToSnapshot(c)

CheckpointInit == JournalInit(TRUE) /\ OthersIdle
SpecCheckpoint == CheckpointInit /\ [][CheckpointNext]_vars

\* the journaled fields of the account a lookup returns
AccountView(o) ==
  IF o = None THEN None
  ELSE [type |-> "view", balance |-> o.balance, nonce |-> o.nonce,
        codeHash |-> o.codeHash, code |-> o.code, storage |-> o.storage]

\* C4: when every operation since checkpoint c was taken is a balance, nonce, code
\* or storage change, revert(c) gives every account the balance, nonce, code hash and bytes and
\* storage values it had at the checkpoint, journal length c, and the dirty counts
\* of the checkpoint.
C4_RevertRestoresCheckpoint ==
  ~panicked =>
    \A c \in 0..(Len(entries) - 1) :
       (/\ hist[c + 1].fieldsOnly
        /\ \A k \in (c + 1)..Len(entries) : entries[k].kind \in FieldKinds) =>
          LET r == journal_revert(Ctx, c)
              at == hist[c + 1].ctx
          IN /\ ~r.panicked
             /\ \A a \in Addrs :
                   AccountView(Lookup(r, accountKey(a)))
                     = AccountView(Lookup(at, accountKey(a)))
             /\ Len(r.entries) = c
             /\ r.dirties = at.dirties

\* C4 witness (scenario A): a balance set, a checkpoint at length 1 with dirty
\* count 1, the balance set again (length 2, dirty count 2); revert to the
\* checkpoint gives the first balance back, length 1 and dirty count 1.
C4_Witness ==
  /\ ~panicked /\ Len(entries) = 2
  /\ entries[1].kind = "balance" /\ entries[2].kind = "balance"
  /\ entries[1].account = AddrOf(1) /\ entries[2].account = AddrOf(1)
  /\ dirties[accountKeyHash(AddrOf(1))] = 2
  /\ hist[2].fieldsOnly
  /\ LET r == journal_revert(Ctx, 1)
         h == accountKeyHash(AddrOf(1))
     IN /\ stateObjects[h].balance # r.stateObjects[h].balance
        /\ r.stateObjects[h].balance = hist[2].ctx.stateObjects[h].balance
        /\ Len(r.entries) = 1
        /\ r.dirties[h] = 1

-----------------------------------------------------------------------------
(* The journal called directly: any entry may be appended, whatever the cache *)

RawEntries ==
  {resetObjectChange(None, FALSE),
   createObjectChange(podKey(1)),
   balanceChange(ripemd, 0), nonceChange(ripemd, 0),
   codeChange(ripemd, 0, CodeHashOf(0)), storageChange(ripemd, 1, 0),
   suicideChange(ripemd, FALSE, 0), touchChange(ripemd),
   refundChange(0), addPreimageChange(1),
   accessListAddAccountChange(ripemd), accessListAddSlotChange(ripemd, 1)}

RawAppend(entry) ==
  /\ CanAppend
  /\ Step("append", journal_append(Ctx, entry))

RawNext ==
  \/ JournalNext
  \/ \E e \in RawEntries : RawAppend(e)

SpecRaw == Init /\ [][RawNext]_vars

\* C6 (as claimed): journal.revert to any checkpoint 0..length never panics and
\* ends with journal length = checkpoint.
C6_RevertNeverFails ==
  lastOp.op = "revert" => ~panicked /\ Len(entries) = lastOp.c

\* the calls of kind k among the first n of cs
CallsOf(cs, k, n) == {j \in 1..n : cs[j].call = k}

\* C17: journal.revert(statedb, c) calls revert on entries[length-1], then
\* entries[length-2], ..., down to entries[c], each exactly once and none below c;
\* the dirty count of an entry that has a dirtied hash is decremented right after
\* that entry's revert and at no other time; afterwards the journal holds exactly
\* the entries 0..c-1 it held before, in the same order.
C17_RevertInReverseOrder ==
  lastOp.op = "revert" =>
     LET n == Len(lastOp.before)
         c == lastOp.c
         cs == lastOp.calls
     IN /\ ~panicked
        /\ Cardinality(CallsOf(cs, "revert", Len(cs))) = n - c
        /\ \A j \in 1..Len(cs) :
              /\ cs[j].index \in c..(n - 1)
              /\ cs[j].call = "revert" =>
                   /\ cs[j].index = n - 1 - Cardinality(CallsOf(cs, "revert", j - 1))
                   /\ Dirtied(lastOp.before[cs[j].index + 1]) # NoHash =>
                        /\ j < Len(cs)
                        /\ cs[j + 1] = [call |-> "decrement", index |-> cs[j].index]
              /\ cs[j].call = "decrement" =>
                   /\ j > 1
                   /\ cs[j - 1] = [call |-> "revert", index |-> cs[j].index]
                   /\ Dirtied(lastOp.before[cs[j].index + 1]) # NoHash
        /\ entries = SubSeq(lastOp.before, 1, c)

\* C17 (witness): a revert undid the last two entries of a full journal, one
\* with a dirtied hash and one without
C17_Witness ==
  /\ lastOp.op = "revert"
  /\ Len(lastOp.before) = MaxJournal
  /\ lastOp.c = MaxJournal - 2
  /\ Len(entries) = lastOp.c
  /\ \E j \in 1..Len(lastOp.calls) : lastOp.calls[j].call = "decrement"
  /\ \E i \in (lastOp.c + 1)..MaxJournal : Dirtied(lastOp.before[i]) = NoHash

-----------------------------------------------------------------------------
(* The access list under the journal: additions, other journaled operations  *)
(* between them, and reverts, with the context of every checkpoint kept      *)

AccessListNext ==
  \/ \E a \in Addrs : AddAddressToAccessList(a)
  \/ \E a \in Addrs, k \in Slots : AddSlotToAccessList(a, k)
  \/ \E g \in Gas : AddRefund(g)
  \/ \E a \in Addrs, v \in Balances : SetBalance(a, v)
  \/ \E c \in 0..Len(entries) : RevertToSnapshot(c)

AccessListInit == JournalInit(TRUE) /\ OthersIdle
SpecAccessList == AccessListInit /\ [][AccessListNext]_vars

\* C20: in every reachable journal an address-added entry for A occurs at most
\* once, A is in the access list while it is there, and it precedes every
\* slot-added entry for A; a revert that reaches the address-added entry finds no
\* slot of A left; and a revert to any checkpoint gives the access list
\* (addresses and slots) of the time the checkpoint was taken.
C20_AccessListUndoOrder ==
  ~panicked =>
     /\ \A i \in 1..Len(entries) :
           entries[i].kind = "alAccount" =>
              /\ entries[i].address \in DOMAIN accessList
              /\ \A j \in 1..Len(entries) :
                    /\ (j # i /\ entries[j].kind = "alAccount") =>
                          entries[j].address # entries[i].address
                    /\ (entries[j].kind = "alSlot"
                          /\ entries[j].address = entries[i].address) => i < j
              /\ LET al == journal_revert(Ctx, i).accessList
                 IN /\ entries[i].address \in DOMAIN al
                    /\ al[entries[i].address] = {}
     /\ \A j \in 1..Len(entries) :
           entries[j].kind = "alSlot" =>
              \E i \in 1..(j - 1) :
                 /\ entries[i].kind = "alAccount"
                 /\ entries[i].address = entries[j].address
     /\ \A c \in 0..(Len(entries) - 1) :
           LET r == journal_revert(Ctx, c)
           IN ~r.panicked /\ r.accessList = hist[c + 1].ctx.accessList

\* C20 (witness): a slot was added for an address that was not in the list (two
\* entries), and a revert to the checkpoint between the two has removed the slot
\* and kept the address
C20_Witness ==
  /\ lastOp.op = "revert" /\ lastOp.c = 1
  /\ Len(lastOp.before) >= 2
  /\ lastOp.before[1].kind = "alAccount"
  /\ lastOp.before[2].kind = "alSlot"
  /\ lastOp.before[2].address = lastOp.before[1].address
  /\ accessList = MapPut(EmptyMap, lastOp.before[1].address, {})

-----------------------------------------------------------------------------
(* The object-created and object-reset entries' revert methods on their own, *)
(* applied to any cache                                                      *)

CacheKeys == AccountKeys \cup {podKey(258)}

\* the object a key names, as the cache holds it and as an earlier version of it
CacheObject(key, version) ==
  IF stateTypeFromPrefix(key[1]) = AccountState
  THEN newAccountObject(keyToAddress(key), [EmptyStateAccount EXCEPT !.Balance = version])
  ELSE newPodObject(keyToBlock(key), [EmptyStatePod EXCEPT !.GasLimit = 1 + version])

PrevObjects == {CacheObject(key, 1) : key \in CacheKeys} \cup {None}

CacheInit ==
  /\ entries = newJournal.entries
  /\ dirties = newJournal.dirties
  /\ \E K \in SUBSET CacheKeys :
        /\ stateObjects = [h \in {hashKey(key) : key \in K} |->
                             CacheObject(CHOOSE key \in K : hashKey(key) = h, 2)]
        /\ stateObjectsDirty \in SUBSET {hashKey(key) : key \in K}
  /\ snapDestructs \in SUBSET {hashKey(key) : key \in CacheKeys}
  /\ snap \in BOOLEAN
  /\ refund = 0
  /\ logs = EmptyMap
  /\ logSize = 0
  /\ preimages = EmptyMap
  /\ accessList = EmptyMap
  /\ trie = EmptyMap
  /\ panicked = FALSE
  /\ tracking = FALSE
  /\ hist = <<>>
  /\ dirtyCalls = EmptyMap
  /\ lastOp = Idle
  /\ OthersIdle

\* entry.revert(statedb): the bookkeeping both entry kinds share
CacheRevert(name, ch) ==
  /\ SetCtx(EntryRevert(Ctx, ch))
  /\ lastOp' = [op |-> name, c |-> 0, ch |-> ch, pre |-> Ctx]
  /\ UNCHANGED <<tracking, hist, dirtyCalls, kio, pod, dump>>

CreateRevert(key) ==
  /\ ~panicked
  /\ CacheRevert("createRevert", createObjectChange(key))

ResetRevert(prev, prevdestruct) ==
  /\ ~panicked
  /\ CacheRevert("resetRevert", resetObjectChange(prev, prevdestruct))

CacheNext ==
  \/ \E key \in CacheKeys : CreateRevert(key)
  \/ \E prev \in PrevObjects, prevdestruct \in BOOLEAN : ResetRevert(prev, prevdestruct)

SpecCache == CacheInit /\ [][CacheNext]_vars

CacheHashes == {hashKey(key) : key \in CacheKeys}

\* C18: reverting an object-created entry for key k leaves no object under
\* hash(k) in stateObjects and no mark for hash(k) in stateObjectsDirty, and
\* every other key hash has the cache entry and the dirty mark it had before.
C18_CreateRevertFrame ==
  lastOp.op = "createRevert" =>
     LET keyHash == hashKey(lastOp.ch.key)
         pre == lastOp.pre
     IN /\ ~panicked
        /\ keyHash \notin DOMAIN stateObjects
        /\ keyHash \notin stateObjectsDirty
        /\ DOMAIN stateObjects = DOMAIN pre.stateObjects \ {keyHash}
        /\ \A h \in DOMAIN stateObjects : stateObjects[h] = pre.stateObjects[h]
        /\ stateObjectsDirty = pre.stateObjectsDirty \ {keyHash}

\* C18 (witness): the reverted key's object was in both caches, and so is
\* another key's object, before and after
C18_Witness ==
  /\ lastOp.op = "createRevert"
  /\ hashKey(lastOp.ch.key) \in DOMAIN lastOp.pre.stateObjects
  /\ hashKey(lastOp.ch.key) \in lastOp.pre.stateObjectsDirty
  /\ \E h \in CacheHashes \ {hashKey(lastOp.ch.key)} :
        h \in DOMAIN stateObjects /\ h \in stateObjectsDirty

\* C19 (as claimed): reverting an object-reset entry, whose captured previous
\* object may be none, installs the previous object as the cache entry of its
\* key hash, a lookup then returns it, and the destruct mark of that key hash
\* is cleared exactly when prevdestruct is false and a snapshot layer is
\* active, the marks being unchanged otherwise.
C19_ResetRevertReinstalls ==
  lastOp.op = "resetRevert" =>
     LET prev == lastOp.ch.prev
         pre == lastOp.pre
     IN /\ ~panicked
        /\ prev # None =>
             /\ stateObjects[ObjKeyHash(prev)] = prev
             /\ Lookup(Ctx, ObjKey(prev)) = prev
             /\ snapDestructs = IF ~lastOp.ch.prevdestruct /\ snap
                                THEN pre.snapDestructs \ {ObjKeyHash(prev)}
                                ELSE pre.snapDestructs

-----------------------------------------------------------------------------
(* Logs under the journal: logs of two transaction hashes, other journaled   *)
(* operations between them, and reverts, with every checkpoint's context     *)

LogTxHashes == {1, 2}

LogsNext ==
  \/ \E th \in LogTxHashes : AddLog(th)
  \/ \E g \in Gas : AddRefund(g)
  \/ \E h \in PreimageHashes : AddPreimage(h)
  \/ \E c \in 0..Len(entries) : RevertToSnapshot(c)

LogsInit == JournalInit(TRUE) /\ OthersIdle
SpecLogs == LogsInit /\ [][LogsNext]_vars

\* C21: reverting a log-added entry for transaction hash T removes the last log
\* of T and nothing else and takes 1 off logSize; when it was T's only log, T
\* has no slot in the logs map afterwards; the logs of every other hash are
\* unchanged; and a revert to any checkpoint gives the logs map and the logSize
\* of the checkpoint, so k adds for T followed by their reverts change nothing.
C21_LogRevertDropsLast ==
  ~panicked =>
     /\ (Len(entries) > 0 /\ entries[Len(entries)].kind = "addLog") =>
           LET T == entries[Len(entries)].txhash
               r == journal_revert(Ctx, Len(entries) - 1)
           IN /\ ~r.panicked
              /\ T \in DOMAIN logs /\ Len(logs[T]) >= 1
              /\ r.logSize = logSize - 1
              /\ IF Len(logs[T]) = 1 THEN T \notin DOMAIN r.logs
                 ELSE /\ T \in DOMAIN r.logs
                      /\ r.logs[T] = SubSeq(logs[T], 1, Len(logs[T]) - 1)
              /\ DOMAIN r.logs \ {T} = DOMAIN logs \ {T}
              /\ \A U \in DOMAIN logs \ {T} : r.logs[U] = logs[U]
     /\ \A c \in 0..(Len(entries) - 1) :
           LET r == journal_revert(Ctx, c)
           IN /\ ~r.panicked
              /\ r.logs = hist[c + 1].ctx.logs
              /\ r.logSize = hist[c + 1].ctx.logSize

\* C21 (witness): two logs were added for one transaction hash and a revert to
\* the checkpoint before the first has undone both entries: no logs, logSize 0
C21_Witness ==
  /\ lastOp.op = "revert" /\ lastOp.c = 0
  /\ Len(lastOp.before) >= 2
  /\ lastOp.before[1].kind = "addLog" /\ lastOp.before[2].kind = "addLog"
  /\ lastOp.before[1].txhash = lastOp.before[2].txhash
  /\ Cardinality({j \in 1..Len(lastOp.calls) : lastOp.calls[j].call = "revert"}) >= 2
  /\ logs = EmptyMap /\ logSize = 0

-----------------------------------------------------------------------------
(* Mark-for-removal and touch entries under the journal: made by the         *)
(* operations on a live account, or appended for an account that may have no *)
(* live object; every checkpoint's context is kept                           *)

AbsentEntries == {suicideChange(ripemd, FALSE, 0), touchChange(ripemd)}

SuicideNext ==
  \/ \E a \in Addrs : CreateAccount(a)
  \/ \E a \in Addrs, v \in Balances : SetBalance(a, v)
  \/ \E a \in Addrs : Suicide(a)
  \/ \E a \in Addrs : Touch(a)
  \/ \E e \in AbsentEntries : RawAppend(e)
  \/ \E c \in 0..Len(entries) : RevertToSnapshot(c)

SuicideInit == JournalInit(TRUE) /\ OthersIdle
SpecSuicide == SuicideInit /\ [][SuicideNext]_vars

\* the dirties map with one taken off the count of hash h
OneLess(m, h) == IF m[h] = 1 THEN MapDel(m, h) ELSE MapPut(m, h, m[h] - 1)

\* C22: reverting a mark-for-removal entry sets, on the live object of its
\* account, the removal flag and the balance the entry holds, which for an entry
\* made by the operation are those the account had before the mark, and changes
\* nothing else of the state; with no live object for the account it changes no
\* state at all; reverting a touch entry changes no object, refund, log,
\* preimage or access-list state.  In both cases the journal loses the entry
\* and the dirty count of the account's hash goes down by one.
C22_SuicideAndTouchRevert ==
  (~panicked /\ Len(entries) > 0) =>
     LET n == Len(entries)
         ch == entries[n]
         r == journal_revert(Ctx, n - 1)
     IN /\ ch.kind = "suicide" =>
             LET h == accountKeyHash(ch.account)
                 got == getStateObject(Ctx, accountKey(ch.account))
                 journal == [got.s EXCEPT !.entries = SubSeq(entries, 1, n - 1),
                                          !.dirties = OneLess(dirties, h)]
             IN /\ h \in DOMAIN dirties
                /\ IF got.obj # None
                   THEN /\ r = [journal EXCEPT !.stateObjects[h].suicided = ch.prev,
                                               !.stateObjects[h].balance = ch.prevbalance]
                        /\ lastOp.op = "suicide" =>
                             /\ r.stateObjects[h].suicided
                                  = Lookup(hist[n].ctx, accountKey(ch.account)).suicided
                             /\ r.stateObjects[h].balance
                                  = Lookup(hist[n].ctx, accountKey(ch.account)).balance
                   ELSE /\ got.s = Ctx
                        /\ r = journal
        /\ ch.kind = "touch" =>
             /\ accountKeyHash(ch.account) \in DOMAIN dirties
             /\ r = [Ctx EXCEPT !.entries = SubSeq(entries, 1, n - 1),
                                !.dirties = OneLess(dirties, accountKeyHash(ch.account))]

\* C22 (witness): the stored account, balance 1, was marked for removal (balance
\* 0) and the revert of that entry has given it balance 1 and no mark again
C22_Witness ==
  /\ lastOp.op = "revert" /\ ~panicked
  /\ Len(lastOp.before) = lastOp.c + 1
  /\ lastOp.before[lastOp.c + 1] = suicideChange(AddrOf(1), FALSE, 1)
  /\ accountKeyHash(AddrOf(1)) \in DOMAIN stateObjects
  /\ stateObjects[accountKeyHash(AddrOf(1))].balance = 1
  /\ ~stateObjects[accountKeyHash(AddrOf(1))].suicided

\* C23 (as claimed): for every object-created entry in the journal, of an
\* account or of a pod of any block number, dirtied() returns without failing
\* and returns hash(k), the key hash the entry's revert removes from the cache
\* and the created object's KeyHash() reports; so journaling the entry never
\* fails either.
C23_CreateDirtiedIsKeyHash ==
  /\ lastOp.op = "createObject" => ~panicked
  /\ \A i \in 1..Len(entries) :
        entries[i].kind = "createObject" =>
           /\ createObjectChange_dirtied(entries[i]) = hashKey(entries[i].key)
           /\ ~panicked =>
                LET r == revertLoop(Ctx, Len(entries) - 1, i, <<>>).ctx
                    o == r.stateObjects[hashKey(entries[i].key)]
                IN /\ hashKey(entries[i].key) \in DOMAIN r.stateObjects
                   /\ ObjKeyHash(o) = createObjectChange_dirtied(entries[i])
                   /\ hashKey(entries[i].key) \notin
                        DOMAIN createObjectChange_revert(r, entries[i]).stateObjects

\* C24: in every state reached through journal.append, journal.dirty and
\* journal.revert to checkpoints 0..length, every count the dirties map stores
\* is at least 1; and every hash an entry of the journal dirties has a slot whose
\* count is at least the number of such entries, so that a revert to any
\* checkpoint decrements only slots that exist and stores no zero or negative
\* count.
C24_DirtyCountsPositive ==
  /\ \A h \in DOMAIN dirties : dirties[h] >= 1
  /\ ~panicked =>
       /\ \A h \in DirtiedBy(entries) :
             h \in DOMAIN dirties /\ dirties[h] >= CountDirtied(entries, h)
       /\ \A c \in 0..Len(entries) :
             LET r == revertLoop(Ctx, Len(entries) - 1, c, <<>>).ctx
             IN \A h \in DOMAIN r.dirties : r.dirties[h] >= 1

\* C24 (witness): two entries dirtied one hash, the second with an explicit
\* journal.dirty mark on it (count 3); a revert has undone the second entry and
\* the hash is left with count 2, the remaining entry and the mark
C24_Witness ==
  /\ lastOp.op = "revert" /\ ~panicked
  /\ Len(lastOp.before) = 2 /\ lastOp.c = 1
  /\ \E j \in 1..Len(lastOp.calls) : lastOp.calls[j].call = "decrement"
  /\ Dirtied(lastOp.before[1]) = Dirtied(lastOp.before[2])
  /\ RealHash(Dirtied(lastOp.before[1]))
  /\ MapGet(dirtyCalls, Dirtied(lastOp.before[1]), 0) = 1
  /\ dirties[Dirtied(lastOp.before[1])] = 2

-----------------------------------------------------------------------------
(* The key scheme on its own: an identifier is encoded to a key, and the key *)
(* decoded again                                                             *)

KeyAddresses == [1..AddressLength -> {0, 1, 255}]
KeyBlocks == (0..MaxBlock) \cup {65535, 65536, 16777215, 16777216}

KeysInit ==
  /\ JournalIdle
  /\ pod = <<>> /\ dump = <<>>
  /\ \E kind \in {"address", "block"} :
       \E id \in (IF kind = "address" THEN KeyAddresses ELSE KeyBlocks) :
          kio = [stage |-> "input", kind |-> kind, in |-> id, key |-> <<>>,
                 addr |-> <<>>, block |-> 0]

EncodeKey ==
  /\ kio.stage = "input"
  /\ kio' = [kio EXCEPT !.stage = "encoded",
                        !.key = IF kio.kind = "address" THEN accountKey(kio.in)
                                ELSE podKey(kio.in)]
  /\ UNCHANGED <<jvars, pod, dump>>

DecodeKey ==
  /\ kio.stage = "encoded"
  /\ kio' = IF kio.kind = "address"
            THEN [kio EXCEPT !.stage = "decoded", !.addr = keyToAddress(kio.key)]
            ELSE [kio EXCEPT !.stage = "decoded", !.block = keyToBlock(kio.key)]
  /\ UNCHANGED <<jvars, pod, dump>>

KeysNext == EncodeKey \/ DecodeKey
SpecKeys == KeysInit /\ [][KeysNext]_vars

\* C7: decoding an encoded key gives the identifier back; an account key is 'a'
\* then the address bytes, a pod key is 'p' then the minimal big-endian bytes of
\* the block (nothing for 0, no leading zero byte).
C7_KeyRoundTrip ==
  /\ kio.stage \in {"encoded", "decoded"} /\ kio.kind = "address" =>
        kio.key = <<PrefixAccount>> \o kio.in
  /\ kio.stage \in {"encoded", "decoded"} /\ kio.kind = "block" =>
        /\ kio.key[1] = PrefixPod
        /\ kio.in = 0 => Len(kio.key) = 1
        /\ Len(kio.key) > 1 => kio.key[2] # 0
        /\ \A i \in 2..Len(kio.key) : kio.key[i] \in Byte
        /\ BigSetBytes(SubSeq(kio.key, 2, Len(kio.key))) = kio.in
  /\ kio.stage = "decoded" /\ kio.kind = "address" => kio.addr = kio.in
  /\ kio.stage = "decoded" /\ kio.kind = "block" => kio.block = kio.in

\* C7 witness: a block of two bytes went through podKey and keyToBlock.
C7_Witness ==
  /\ kio.stage = "decoded" /\ kio.kind = "block"
  /\ kio.in = 258 /\ kio.key = <<PrefixPod, 1, 2>> /\ kio.block = 258

-----------------------------------------------------------------------------
(* The canonical encoding (RLP) of a pod's data, gen_pod_rlp.go *)

RECURSIVE Concat(_)
Concat(ss) == IF Len(ss) = 0 THEN <<>> ELSE ss[1] \o Concat(Tail(ss))

\* a byte string: itself when one byte below 0x80, else a length header first
RlpBytes(bs) ==
  IF Len(bs) = 1 /\ bs[1] < 128 THEN bs
  ELSE IF Len(bs) <= 55 THEN <<128 + Len(bs)>> \o bs
  ELSE <<183 + Len(BigBytes(Len(bs)))>> \o BigBytes(Len(bs)) \o bs

\* an unsigned integer: its minimal big-endian bytes as a byte string
RlpUint64(n) == RlpBytes(BigBytes(n))

\* a list: a length header, then the encoded items
RlpList(payload) ==
  IF Len(payload) <= 55 THEN <<192 + Len(payload)>> \o payload
  ELSE <<247 + Len(BigBytes(Len(payload)))>> \o BigBytes(Len(payload)) \o payload

\* StatePod.EncodeRLP: [GasLimit, CurrentGasLimit, [passengers...]]
StatePod_EncodeRLP(obj) ==
  RlpList(RlpUint64(obj.GasLimit) \o RlpUint64(obj.CurrentGasLimit)
          \o RlpList(Concat([i \in 1..Len(obj.Passengers) |->
                               RlpBytes(obj.Passengers[i])])))

\* rlp.DecodeBytes, one item off the front of bs: its kind ("str", "list", or
\* "err" for input that is short or not canonical), its content and the rest
RlpSplit(bs) ==
  LET b == bs[1]
      long == b \in 184..191 \/ b >= 248
      lenlen == IF b >= 248 THEN b - 247 ELSE IF b \in 184..191 THEN b - 183 ELSE 0
      sizeBytes == SubSeq(bs, 2, 1 + lenlen)
      size == IF b < 128 THEN 1
              ELSE IF long THEN BigSetBytes(sizeBytes)
              ELSE IF b >= 192 THEN b - 192 ELSE b - 128
      from == IF b < 128 THEN 1 ELSE 2 + lenlen
      content == SubSeq(bs, from, from + size - 1)
      bad == \/ long /\ Len(bs) < 1 + lenlen
             \/ long /\ (sizeBytes[1] = 0 \/ size <= 55)
             \/ Len(bs) < from + size - 1
             \/ b = 129 /\ Len(bs) >= 2 /\ bs[2] < 128
  IN IF Len(bs) = 0 \/ bad THEN [kind |-> "err", content |-> <<>>, rest |-> <<>>]
     ELSE [kind |-> IF b >= 192 THEN "list" ELSE "str", content |-> content,
           rest |-> SubSeq(bs, from + size, Len(bs))]

\* the items of a list payload, in order; <<"err">> marks a bad item
RECURSIVE RlpItems(_)
RlpItems(payload) ==
  IF Len(payload) = 0 THEN <<>>
  ELSE LET it == RlpSplit(payload)
       IN IF it.kind = "err" THEN <<[kind |-> "err", content |-> <<>>]>>
          ELSE <<[kind |-> it.kind, content |-> it.content]>> \o RlpItems(it.rest)

\* an unsigned integer: a string of at most 8 bytes without a leading zero
RlpIsUint64(it) ==
  it.kind = "str" /\ Len(it.content) <= 8 /\ (Len(it.content) > 0 => it.content[1] # 0)

-----------------------------------------------------------------------------
(* The slim pod of the snapshot layer, snapshot/pod.go *)

\* SlimPod: the passengers as raw byte strings.  The loop appends p[:], a slice
\* of the loop variable p: where the build gives the loop ONE variable (Go before
\* 1.22) every appended slice is that variable and ends holding the last
\* passenger; where each turn has its own variable the slices are distinct.
LoopVarBuilds == {"perLoop", "perIteration"}
SlimPod(gasLimit, currentGasLimit, passengers, build) ==
  [GasLimit |-> gasLimit, CurrentGasLimit |-> currentGasLimit,
   Passengers |-> IF build = "perLoop"
                  THEN [i \in 1..Len(passengers) |-> passengers[Len(passengers)]]
                  ELSE passengers]

\* rlp.EncodeToBytes of a Pod: the list of its three fields
Pod_EncodeRLP(p) == StatePod_EncodeRLP(p)

SlimPodRLP(gasLimit, currentGasLimit, passengers, build) ==
  Pod_EncodeRLP(SlimPod(gasLimit, currentGasLimit, passengers, build))

ZeroPod == [GasLimit |-> 0, CurrentGasLimit |-> 0, Passengers |-> <<>>]

\* FullPod: decode a list of exactly (uint64, uint64, list of strings)
FullPod(data) ==
  LET top == RlpSplit(data)
      items == IF top.kind = "list" THEN RlpItems(top.content) ELSE <<>>
      ps == IF Len(items) = 3 /\ items[3].kind = "list"
            THEN RlpItems(items[3].content) ELSE <<[kind |-> "err", content |-> <<>>]>>
      ok == /\ top.kind = "list" /\ Len(top.rest) = 0
            /\ Len(items) = 3
            /\ RlpIsUint64(items[1]) /\ RlpIsUint64(items[2])
            /\ \A i \in 1..Len(ps) : ps[i].kind = "str"
  IN IF ok THEN [pod |-> [GasLimit |-> BigSetBytes(items[1].content),
                          CurrentGasLimit |-> BigSetBytes(items[2].content),
                          Passengers |-> [i \in 1..Len(ps) |-> ps[i].content]],
                 err |-> FALSE]
     ELSE [pod |-> ZeroPod, err |-> TRUE]

FullPodRLP(data) ==
  LET r == FullPod(data)
  IN IF r.err THEN [rlp |-> <<>>, err |-> TRUE]
     ELSE [rlp |-> Pod_EncodeRLP(r.pod), err |-> FALSE]

FullStatePod(data) ==
  LET r == FullPod(data)
  IN IF r.err THEN [pod |-> ZeroPod, err |-> TRUE]
     ELSE [pod |-> [r.pod EXCEPT !.Passengers =
                      [i \in 1..Len(@) |-> BytesToAddress(@[i])]],
           err |-> FALSE]

-----------------------------------------------------------------------------
(* The pod object, pod_object.go *)

podObject_ValueBytes(o) == StatePod_EncodeRLP(o.data)
podObject_Empty(o) == o.block = NilBlock /\ o.data.GasLimit = 0
podObject_MarkDeleted(o) == [o EXCEPT !.deleted = TRUE]

\* DeepCopy is a stub: it returns nil
podObject_DeepCopy(o) == None

\* SnapRLP is a stub: it returns nil
podObject_SnapRLP(o) == <<>>

\* Commit is a stub: it returns (nil, nil) and touches no trie
podObject_Commit(o, tr) == [trie |-> tr, nodes |-> None, err |-> None]

PodBlocks == {0, 42, 258}
PodGasLimits == {0, 1, DefaultGasLimit}
PodCurrentGasLimits == {0, 1}
RECURSIVE SeqsUpTo(_, _)
SeqsUpTo(S, n) ==
  IF n = 0 THEN {<<>>}
  ELSE SeqsUpTo(S, n - 1) \cup {Append(q, x) : q \in SeqsUpTo(S, n - 1), x \in S}
PodPassengers == SeqsUpTo(Addrs, MaxPassengers)

\* the trie before the pod layer writes: block 42 has a stored pod already
PodInitialTrie ==
  MapPut(EmptyMap, podKeyHash(42),
         Value(PodState, StatePod_EncodeRLP([GasLimit |-> 1, CurrentGasLimit |-> 0,
                                             Passengers |-> <<>>])))

PodInit ==
  /\ JournalIdle
  /\ kio = <<>> /\ dump = <<>>
  /\ pod = [obj |-> None, copy |-> None, trie |-> PodInitialTrie,
            nodes |-> None, err |-> None, op |-> "init",
            arg |-> None, empty |-> FALSE]

\* newPodObject(db, block, data); arg keeps the arguments of the call
NewPod(block, data) ==
  /\ pod.op = "init"
  /\ LET o == newPodObject(block, data)
     IN pod' = [pod EXCEPT !.obj = o, !.arg = [block |-> block, data |-> data],
                           !.op = IF o = PanicObject THEN "panic" ELSE "newPodObject"]
  /\ UNCHANGED <<jvars, kio, dump>>

PodEmpty ==
  /\ pod.op \in {"newPodObject", "MarkDeleted"}
  /\ pod' = [pod EXCEPT !.empty = podObject_Empty(pod.obj), !.op = "Empty"]
  /\ UNCHANGED <<jvars, kio, dump>>

PodMarkDeleted ==
  /\ pod.op = "newPodObject" /\ ~pod.obj.deleted
  /\ pod' = [pod EXCEPT !.obj = podObject_MarkDeleted(@), !.op = "MarkDeleted"]
  /\ UNCHANGED <<jvars, kio, dump>>

PodCommit ==
  /\ pod.op \in {"newPodObject", "MarkDeleted", "DeepCopy", "Empty"}
  /\ LET r == podObject_Commit(pod.obj, pod.trie)
     IN pod' = [pod EXCEPT !.trie = r.trie, !.nodes = r.nodes, !.err = r.err,
                           !.op = "Commit"]
  /\ UNCHANGED <<jvars, kio, dump>>

PodDeepCopy ==
  /\ pod.op \in {"newPodObject", "MarkDeleted"}
  /\ pod' = [pod EXCEPT !.copy = podObject_DeepCopy(pod.obj), !.op = "DeepCopy"]
  /\ UNCHANGED <<jvars, kio, dump>>

PodNext ==
  \/ \E b \in PodBlocks \cup {NilBlock}, g \in PodGasLimits,
        c \in PodCurrentGasLimits, ps \in PodPassengers :
        NewPod(b, [GasLimit |-> g, CurrentGasLimit |-> c, Passengers |-> ps])
  \/ PodMarkDeleted
  \/ PodEmpty
  \/ PodCommit
  \/ PodDeepCopy

SpecPod == PodInit /\ [][PodNext]_vars

\* C8 (as claimed): Commit of a pod marked for removal or deleted removes its key
\* from the trie; Commit of any other pod writes the encoded data under its key;
\* and it returns the trie's change-set or an error.
C8_PodCommitWritesOrDeletes ==
  pod.op = "Commit" =>
     /\ IF ObjSuicided(pod.obj) \/ ObjDeleted(pod.obj)
        THEN ObjKeyHash(pod.obj) \notin DOMAIN pod.trie
        ELSE /\ ObjKeyHash(pod.obj) \in DOMAIN pod.trie
             /\ pod.trie[ObjKeyHash(pod.obj)]
                  = Value(PodState, podObject_ValueBytes(pod.obj))
     /\ pod.nodes # None \/ pod.err # None

\* C9 (as claimed): DeepCopy returns a pod object with the block, key hash, gas
\* limits, flags and passengers of the source.
C9_PodDeepCopyCopies ==
  pod.op = "DeepCopy" =>
     /\ pod.copy # None
     /\ pod.copy.type = "pod"
     /\ pod.copy.block = pod.obj.block
     /\ pod.copy.podHash = pod.obj.podHash
     /\ pod.copy.data = pod.obj.data
     /\ pod.copy.executed = pod.obj.executed
     /\ pod.copy.deleted = pod.obj.deleted

-----------------------------------------------------------------------------
(* The state dump, dump.go: DumpToCollector over the trie's ordered entries  *)

\* a trie entry under hashed key k: the stored value (type prefix, then data) and
\* what trie.GetKey gives for k (the key preimage, or nil)
NilBytes == [nil |-> TRUE, bytes |-> <<>>]
SomeBytes(bs) == [nil |-> FALSE, bytes |-> bs]

AccountEntry(k, known) ==
  [key |-> k, prefix |-> PrefixAccount,
   data |-> [Balance |-> k, Nonce |-> 0, Code |-> 0],
   preimage |-> IF known THEN SomeBytes(accountKey(AddrOf(k))) ELSE NilBytes]
PodEntry(k, known) ==
  [key |-> k, prefix |-> PrefixPod,
   data |-> [GasLimit |-> DefaultGasLimit, CurrentGasLimit |-> 0, Passengers |-> <<>>],
   preimage |-> IF known THEN SomeBytes(podKey(k)) ELSE NilBytes]

EntryShapes == {"a", "p"} \X BOOLEAN
MakeEntry(k, shape) ==
  IF shape[1] = "a" THEN AccountEntry(k, shape[2]) ELSE PodEntry(k, shape[2])

\* the tries of the model: 1..MaxTrieEntries entries, keys ascending
DumpTries ==
  UNION {{[k \in 1..n |-> MakeEntry(k, f[k])] : f \in [1..n -> EntryShapes]} :
           n \in 1..MaxTrieEntries}

DumpConfigs ==
  {[SkipCode |-> sk, SkipStorage |-> sk, OnlyWithAddresses |-> o, Start |-> 0, Max |-> m] :
     sk \in BOOLEAN, o \in BOOLEAN, m \in {0, 1, 2}}

\* the collector, dump.go:74-93: Root is the hash as hexadecimal text, Accounts is
\* keyed by address, Pods by the *big.Int pointer (ptr) the loop allocates
NewDump == [Root |-> <<>>, Accounts |-> EmptyMap, Pods |-> EmptyMap]
Dump_OnRoot_valueReceiver(d, root) == d
Dump_OnRoot(d, root) == [d EXCEPT !.Root = <<"hex", root>>]
Dump_OnAccount(d, addr, account) == [d EXCEPT !.Accounts = MapPut(@, addr, account)]
Dump_OnPod(d, block, podOut) == [d EXCEPT !.Pods = MapPut(@, block, podOut)]

DumpInit ==
  /\ JournalIdle
  /\ kio = <<>> /\ pod = <<>>
  /\ \E tr \in DumpTries, conf \in DumpConfigs :
       dump = [pc |-> "start", trie |-> tr, conf |-> conf, pos |-> 1,
               out |-> <<>>, missingPreimages |-> 0, accounts |-> 0, pods |-> 0,
               nextKey |-> 0, coll |-> NewDump, prior |-> <<>>]

\* s.trie.Hash()
TrieHash(tr) == <<"root", tr>>

\* dump.go:161-176: the root is reported, the iterator is placed at conf.Start
DumpStart ==
  /\ dump.pc = "start"
  /\ dump' = [dump EXCEPT !.pc = "loop",
                          !.out = <<[ev |-> "root", root |-> TrieHash(dump.trie)]>>,
                          !.coll = Dump_OnRoot(@, TrieHash(dump.trie)),
                          !.pos = IF dump.conf.Start = 0 THEN 1 ELSE dump.conf.Start]
  /\ UNCHANGED <<jvars, kio, pod>>

\* dump.go:254-260: the Max check after an emitted entry
AfterEntry(d) ==
  IF d.conf.Max > 0 /\ d.accounts >= d.conf.Max
  THEN [d EXCEPT !.pc = "done",
                 !.nextKey = IF d.pos + 1 <= Len(d.trie) THEN d.trie[d.pos + 1].key ELSE 0,
                 !.pos = IF d.pos + 1 <= Len(d.trie) THEN d.pos + 2 ELSE d.pos + 1]
  ELSE [d EXCEPT !.pos = d.pos + 1]

\* dump.go:183-223: the account branch
DumpAccountEntry(d, e) ==
  LET account == [Balance |-> <<"decimal", e.data.Balance>>, Nonce |-> e.data.Nonce,
                  CodeHash |-> CodeHashOf(e.data.Code), SecureKey |-> e.key,
                  Code |-> IF d.conf.SkipCode THEN <<>> ELSE <<e.data.Code>>,
                  Storage |-> IF d.conf.SkipStorage THEN "none" ELSE "read"]
      addrBytes == e.preimage
      d1 == IF addrBytes.nil THEN [d EXCEPT !.missingPreimages = @ + 1] ELSE d
  IN IF addrBytes.nil /\ d.conf.OnlyWithAddresses
     THEN [d1 EXCEPT !.pos = d.pos + 1]
     ELSE IF addrBytes.nil \/ ~CanSliceFrom1(addrBytes.bytes)
     THEN [d1 EXCEPT !.pc = "panic"]
     ELSE AfterEntry([d1 EXCEPT
            !.out = Append(@, [ev |-> "account", key |-> e.key,
                               addr |-> BytesToAddress(SliceFrom1(addrBytes.bytes)),
                               account |-> account]),
            !.coll = Dump_OnAccount(@, BytesToAddress(SliceFrom1(addrBytes.bytes)),
                                    account),
            !.accounts = @ + 1])

\* dump.go:224-244: the pod branch
DumpPodEntry(d, e) ==
  LET podOut == [GasLimit |-> e.data.GasLimit, CurrentGasLimit |-> e.data.CurrentGasLimit,
                 Passengers |-> e.data.Passengers, SecureKey |-> e.key]
      blockBytes == e.preimage
      d1 == IF blockBytes.nil THEN [d EXCEPT !.missingPreimages = @ + 1] ELSE d
  IN IF blockBytes.nil \/ ~CanSliceFrom1(blockBytes.bytes)
     THEN [d1 EXCEPT !.pc = "panic"]
     ELSE AfterEntry([d1 EXCEPT
            !.out = Append(@, [ev |-> "pod", key |-> e.key,
                               block |-> BigSetBytes(SliceFrom1(blockBytes.bytes)),
                               pod |-> podOut]),
            !.coll = Dump_OnPod(@, [ptr |-> Len(d.out),
                                    val |-> BigSetBytes(SliceFrom1(blockBytes.bytes))],
                                podOut),
            !.pods = @ + 1])

\* one turn of the loop, dump.go:177-261
DumpStep ==
  /\ dump.pc = "loop" /\ dump.pos <= Len(dump.trie)
  /\ LET e == dump.trie[dump.pos]
         stateType == stateTypeFromPrefix(e.prefix)
     IN dump' = IF stateType = AccountState THEN DumpAccountEntry(dump, e)
                ELSE IF stateType = PodState THEN DumpPodEntry(dump, e)
                ELSE [dump EXCEPT !.pc = "panic"]
  /\ UNCHANGED <<jvars, kio, pod>>

\* it.Next() is false: dump.go:262-268
DumpEnd ==
  /\ dump.pc = "loop" /\ dump.pos > Len(dump.trie)
  /\ dump' = [dump EXCEPT !.pc = "done"]
  /\ UNCHANGED <<jvars, kio, pod>>

\* the emitted keys of the call in progress
EmittedKeys(d) == [i \in 1..(Len(d.out) - 1) |-> d.out[i + 1].key]

\* dump.go:297-304, IteratorDump: the caller asks for the next page, starting at
\* the key the last call returned, with a new collector
DumpContinue ==
  /\ dump.pc = "done" /\ dump.nextKey # 0
  /\ dump' = [dump EXCEPT !.pc = "start", !.conf.Start = dump.nextKey, !.pos = 1,
                          !.out = <<>>, !.missingPreimages = 0, !.accounts = 0,
                          !.pods = 0, !.nextKey = 0, !.coll = NewDump,
                          !.prior = @ \o EmittedKeys(dump)]
  /\ UNCHANGED <<jvars, kio, pod>>

DumpNext == DumpStart \/ DumpStep \/ DumpEnd \/ DumpContinue
SpecDump == DumpInit /\ [][DumpNext]_vars

\* the entries the loop has been through, in order
Visited(d) ==
  LET first == IF d.conf.Start = 0 THEN 1 ELSE d.conf.Start
      last == IF d.pc = "start" THEN first - 1
              ELSE IF d.pc = "panic" THEN d.pos
              ELSE IF d.pc = "done" /\ d.nextKey # 0 THEN d.nextKey - 1
              ELSE d.pos - 1
  IN SubSeq(d.trie, first, last)

Skipped(d, e) == e.prefix = PrefixAccount /\ e.preimage.nil /\ d.conf.OnlyWithAddresses
RECURSIVE KeysToEmit(_, _)
KeysToEmit(d, es) ==
  IF Len(es) = 0 THEN <<>>
  ELSE (IF Skipped(d, es[1]) THEN <<>> ELSE <<es[1].key>>) \o KeysToEmit(d, Tail(es))

\* C10 (as claimed): an entry without a key preimage never aborts the dump; it is
\* counted, skipped when it is an account and OnlyWithAddresses is set, emitted
\* otherwise, and the loop goes on.
C10_MissingPreimageNeverAborts ==
  /\ dump.pc = "panic" => ~dump.trie[dump.pos].preimage.nil
  /\ dump.pc \in {"loop", "done"} =>
        /\ dump.missingPreimages
             = Cardinality({i \in 1..Len(Visited(dump)) : Visited(dump)[i].preimage.nil})
        /\ EmittedKeys(dump) = KeysToEmit(dump, Visited(dump))

\* C11 (as claimed): with Max > 0 a call emits at most Max entries, accounts and
\* pods together, and returns the key of the first entry it did not emit (none when
\* nothing remains); with Max = 0 it emits every entry and returns none; the pages
\* together emit every entry once, in ascending key order.
C11_DumpPagination ==
  dump.pc = "done" =>
    /\ dump.conf.Max > 0 => Len(EmittedKeys(dump)) <= dump.conf.Max
    /\ dump.conf.Max = 0 => dump.nextKey = 0
    /\ EmittedKeys(dump) = KeysToEmit(dump, Visited(dump))
    /\ dump.nextKey = 0 =>
         dump.prior \o EmittedKeys(dump) = KeysToEmit(dump, dump.trie)

DefaultConfig(conf) ==
  /\ ~conf.SkipCode /\ ~conf.SkipStorage /\ ~conf.OnlyWithAddresses
  /\ conf.Start = 0 /\ conf.Max = 0
WithPrefix(tr, prefix) == {i \in 1..Len(tr) : tr[i].prefix = prefix}

\* C12: a finished dump under the default configuration, every preimage present:
\* the root was reported once and Root is the trie hash as text; every entry was
\* emitted once, in key order; each 'a' entry is in Accounts under its address,
\* each 'p' entry is in Pods, and the two sizes add up to the number of entries.
C12_RawDumpEmitsEachOnce ==
  (/\ dump.pc = "done" /\ DefaultConfig(dump.conf)
   /\ \A i \in 1..Len(dump.trie) : ~dump.trie[i].preimage.nil) =>
     LET tr == dump.trie
         Accounts == dump.coll.Accounts
         Pods == dump.coll.Pods
     IN /\ Cardinality({i \in 1..Len(dump.out) : dump.out[i].ev = "root"}) = 1
        /\ dump.coll.Root = <<"hex", TrieHash(tr)>>
        /\ EmittedKeys(dump) = [i \in 1..Len(tr) |-> tr[i].key]
        /\ \A i \in WithPrefix(tr, PrefixAccount) :
              /\ keyToAddress(tr[i].preimage.bytes) \in DOMAIN Accounts
              /\ Accounts[keyToAddress(tr[i].preimage.bytes)].SecureKey = tr[i].key
        /\ \A i \in WithPrefix(tr, PrefixPod) :
              \E b \in DOMAIN Pods :
                 /\ b.val = keyToBlock(tr[i].preimage.bytes)
                 /\ Pods[b].SecureKey = tr[i].key
        /\ Cardinality(DOMAIN Accounts) = Cardinality(WithPrefix(tr, PrefixAccount))
        /\ Cardinality(DOMAIN Pods) = Cardinality(WithPrefix(tr, PrefixPod))
        /\ Cardinality(DOMAIN Accounts) + Cardinality(DOMAIN Pods) = Len(tr)

\* C12 witness (scenario C): one account and one pod dumped with the default
\* configuration give Accounts of size 1 and Pods of size 1.
C12_Witness ==
  /\ dump.pc = "done" /\ DefaultConfig(dump.conf)
  /\ Len(dump.trie) = 2
  /\ dump.trie[1].prefix = PrefixAccount /\ ~dump.trie[1].preimage.nil
  /\ dump.trie[2].prefix = PrefixPod /\ ~dump.trie[2].preimage.nil
  /\ Cardinality(DOMAIN dump.coll.Accounts) = 1
  /\ Cardinality(DOMAIN dump.coll.Pods) = 1
  /\ dump.coll.Root = <<"hex", TrieHash(dump.trie)>>

-----------------------------------------------------------------------------
(* Pod construction and the Empty predicate *)

\* C13: a pod built by newPodObject has GasLimit 1000000 when the given GasLimit
\* is 0 and the given GasLimit otherwise; CurrentGasLimit and the passengers are
\* the given ones; its ValueBytes decode to exactly that data.
C13_NewPodDefaultsGasLimit ==
  (pod.op # "init" /\ pod.obj # PanicObject) =>
     LET given == pod.arg.data
         data == pod.obj.data
     IN /\ data.GasLimit = IF given.GasLimit = 0 THEN 1000000 ELSE given.GasLimit
        /\ data.CurrentGasLimit = given.CurrentGasLimit
        /\ data.Passengers = given.Passengers
        /\ FullStatePod(podObject_ValueBytes(pod.obj)) = [pod |-> data, err |-> FALSE]

\* C13 witness (scenario B): a pod for block 42 with no explicit fields has data
\* (1000000, 0, no passengers), and so do its decoded ValueBytes.
C13_Witness ==
  /\ pod.op = "newPodObject"
  /\ pod.arg = [block |-> 42, data |-> EmptyStatePod]
  /\ pod.obj.data = [GasLimit |-> 1000000, CurrentGasLimit |-> 0, Passengers |-> <<>>]
  /\ FullStatePod(podObject_ValueBytes(pod.obj)).pod.GasLimit = 1000000

\* C14 (as claimed): Empty() is true exactly when the pod has no block and its
\* GasLimit is zero; a pod built by newPodObject with no block and no explicit gas
\* limit is built and reports Empty.
C14_PodEmptyIffNoBlockZeroGas ==
  /\ pod.op = "Empty" =>
        pod.empty = (pod.obj.block = NilBlock /\ pod.obj.data.GasLimit = 0)
  /\ (pod.op # "init" /\ pod.arg.block = NilBlock /\ pod.arg.data.GasLimit = 0) =>
        /\ pod.op # "panic"
        /\ pod.op = "Empty" => pod.empty

-----------------------------------------------------------------------------
(* The slim encoding and back: SlimPodRLP, FullStatePod, FullPodRLP *)

CodecGasLimits == {0, 1, 127, 128, 256, DefaultGasLimit}
CodecCurrentGasLimits == {0, 1, 128}
CodecAddrs == {AddrOf(1), AddrOf(128), AddrOf(258)}

CodecInit ==
  /\ JournalIdle
  /\ pod = <<>> /\ dump = <<>>
  /\ \E b \in LoopVarBuilds, g \in CodecGasLimits, c \in CodecCurrentGasLimits,
        ps \in SeqsUpTo(CodecAddrs, MaxPassengers) :
        kio = [stage |-> "in", build |-> b, g |-> g, c |-> c, ps |-> ps,
               slim |-> <<>>, full |-> [pod |-> ZeroPod, err |-> FALSE],
               again |-> [rlp |-> <<>>, err |-> FALSE]]

CodecSlim ==
  /\ kio.stage = "in"
  /\ kio' = [kio EXCEPT !.stage = "slim",
                        !.slim = SlimPodRLP(kio.g, kio.c, kio.ps, kio.build)]
  /\ UNCHANGED <<jvars, pod, dump>>

CodecFull ==
  /\ kio.stage = "slim"
  /\ kio' = [kio EXCEPT !.stage = "full", !.full = FullStatePod(kio.slim)]
  /\ UNCHANGED <<jvars, pod, dump>>

CodecAgain ==
  /\ kio.stage = "full"
  /\ kio' = [kio EXCEPT !.stage = "again", !.again = FullPodRLP(kio.slim)]
  /\ UNCHANGED <<jvars, pod, dump>>

CodecNext == CodecSlim \/ CodecFull \/ CodecAgain
SpecCodec == CodecInit /\ [][CodecNext]_vars

\* C16 (as claimed): FullStatePod(SlimPodRLP(g, c, ps)) is the pod (g, c, ps), the
\* passengers equal one by one in the same order, and the slim form is the
\* canonical StatePod encoding of the same three fields.
C16_SlimFullRoundTrip ==
  kio.stage \in {"full", "again"} =>
     /\ ~kio.full.err
     /\ kio.full.pod.GasLimit = kio.g
     /\ kio.full.pod.CurrentGasLimit = kio.c
     /\ kio.full.pod.Passengers = kio.ps
     /\ kio.slim = StatePod_EncodeRLP([GasLimit |-> kio.g, CurrentGasLimit |-> kio.c,
                                       Passengers |-> kio.ps])

-----------------------------------------------------------------------------
(* Type prefixes other than 'a' and 'p': in a journaled key and in the trie   *)

UnknownPrefixes == {0, 98, 255}

\* a trie entry whose stored value starts with another byte
UnknownEntry(k, prefix) ==
  [key |-> k, prefix |-> prefix,
   data |-> [Balance |-> 0, Nonce |-> 0, Code |-> 0,
             GasLimit |-> 0, CurrentGasLimit |-> 0, Passengers |-> <<>>],
   preimage |-> SomeBytes(<<prefix, k>>)]

PrefixEntries(k) ==
  {AccountEntry(k, TRUE), PodEntry(k, TRUE)} \cup {UnknownEntry(k, p) : p \in UnknownPrefixes}
PrefixTries ==
  {<<e>> : e \in PrefixEntries(1)}
    \cup {<<e1, e2>> : e1 \in PrefixEntries(1), e2 \in PrefixEntries(2)}
PrefixKeys ==
  {<<p>> \o suffix : p \in UnknownPrefixes \cup {PrefixAccount, PrefixPod},
                     suffix \in {AddrOf(1), <<0, 1, 2>>}}

PrefixInit ==
  /\ JournalIdle
  /\ pod = <<>>
  /\ \E key \in PrefixKeys :
        kio = [stage |-> "in", key |-> key, st |-> NoStateType]
  /\ \E tr \in PrefixTries, conf \in DumpConfigs :
       /\ ~conf.SkipCode
       /\ dump = [pc |-> "start", trie |-> tr, conf |-> conf, pos |-> 1,
                  out |-> <<>>, missingPreimages |-> 0, accounts |-> 0, pods |-> 0,
                  nextKey |-> 0, coll |-> NewDump, prior |-> <<>>]

\* an object-created entry for the key is journaled: journal.append calls dirtied()
PrefixAppend ==
  /\ kio.stage = "in"
  /\ SetCtx(journal_append(Ctx, createObjectChange(kio.key)))
  /\ kio' = [kio EXCEPT !.stage = "appended", !.st = stateTypeFromPrefix(kio.key[1])]
  /\ lastOp' = [op |-> "append", c |-> Len(entries)]
  /\ UNCHANGED <<tracking, hist, dirtyCalls, pod, dump>>

PrefixNext == PrefixAppend \/ DumpStart \/ DumpStep \/ DumpEnd \/ DumpContinue
SpecPrefix == PrefixInit /\ [][PrefixNext]_vars

\* C15: a prefix byte other than 'a' (97) and 'p' (112) gives no StateType and is
\* fatal: journaling an object-created entry whose key starts with it panics in
\* dirtied() (no nil hash, no count raised), and the dump aborts at a trie entry
\* whose value starts with it: the entry is not emitted and nothing after it is
\* visited.
C15_UnknownPrefixFatal ==
  /\ (kio.stage = "appended" /\ kio.key[1] \notin {97, 112}) =>
        /\ kio.st \notin {AccountState, PodState}
        /\ panicked
        /\ Dirtied(entries[Len(entries)]) \notin {NoHash} \cup HashUniverse
        /\ dirties = EmptyMap
  /\ (kio.stage = "appended" /\ kio.key[1] \in {97, 112}) =>
        /\ kio.st.Prefix = kio.key[1]
        /\ dirties # EmptyMap
  /\ \A k \in 1..Len(Visited(dump)) :
        Visited(dump)[k].prefix \notin {97, 112} =>
           /\ dump.pc = "panic"
           /\ Visited(dump)[k].key = dump.pos
  /\ \A i \in 2..Len(dump.out) : dump.trie[dump.out[i].key].prefix \in {97, 112}

\* C15 witness: the append panicked on an unknown prefix, and the dump emitted one
\* entry and then aborted at the unknown-prefix entry after it.
C15_Witness ==
  /\ kio.stage = "appended" /\ kio.key[1] \notin {97, 112} /\ panicked
  /\ dump.pc = "panic" /\ dump.pos = 2 /\ Len(dump.out) = 2
  /\ dump.trie[2].prefix \notin {97, 112}

====
